---- MODULE Spec2Model ----
(***************************************************************************)
(* Propagation engines of ffdmk_2d1_adi2.py (ADI + AB2) and                *)
(* ffdmk_2d1_fcn.py (split-step Fourier + Crank-Nicolson + AB2).           *)
(*                                                                         *)
(* Arithmetic carrier.  The programs compute in complex floating point.    *)
(* The model computes in the Gaussian integers modulo the prime P          *)
(* (P = 3 mod 4, so re^2 + im^2 = 0 only for zero): an exact field with    *)
(* the imaginary unit, conjugation, squared modulus and N-th roots of      *)
(* unity for N = 1, 2, 4, which is what the tridiagonal solves, the        *)
(* nonlinear source and the discrete Fourier transform use.  One extra     *)
(* value, NaN, stands for every non-finite number and absorbs arithmetic.  *)
(* Array indices are those of the source (0-based).                        *)
(***************************************************************************)
EXTENDS Integers, Sequences, FiniteSets, TLC

\* ------------------------------------------------------------ arithmetic

P == 7

NaN == << -1, -1 >>

Cx(a, b) == << a % P, b % P >>

Zero == Cx(0, 0)

One == Cx(1, 0)

IM_UNIT == Cx(0, 1)

Finite == { Cx(a, b) : a \in 0..(P - 1), b \in 0..(P - 1) }

Add(x, y) == IF x = NaN \/ y = NaN THEN NaN
             ELSE Cx(x[1] + y[1], x[2] + y[2])

Neg(x) == IF x = NaN THEN NaN ELSE Cx(0 - x[1], 0 - x[2])

Sub(x, y) == Add(x, Neg(y))

Mul(x, y) == IF x = NaN \/ y = NaN THEN NaN
             ELSE Cx(x[1] * y[1] - x[2] * y[2], x[1] * y[2] + x[2] * y[1])

\* a real integer as a number (3, 0.5 = 1/2, 0.25 = 1/4, a node index)
Real(m) == Cx(m, 0)

InvP(a) == CHOOSE b \in 1..(P - 1) : (a * b) % P = 1

\* 1 / x; a division by zero gives a non-finite value
Inv(x) == IF x = NaN \/ x = Zero THEN NaN
          ELSE LET nrm == (x[1] * x[1] + x[2] * x[2]) % P
                   q == InvP(nrm)
               IN  Cx(x[1] * q, (0 - x[2]) * q)

Div(x, y) == Mul(x, Inv(y))

Half == Inv(Real(2))

Quarter == Inv(Real(4))

RECURSIVE Pow(_, _)
Pow(x, m) == IF m = 0 THEN One ELSE Mul(x, Pow(x, m - 1))

\* np.abs(z) ** 2
Abs2(z) == IF z = NaN THEN NaN ELSE Cx(z[1] * z[1] + z[2] * z[2], 0)

\* np.abs(z) ** e for an even exponent e: (|z|^2) ^ (e / 2)
AbsPow(z, e) == Pow(Abs2(z), e \div 2)

\* ------------------------------------------------------ operator builder

\* crank_nicolson_diags_r without diag_p1[0] = -2 * coef on the axis
crank_nicolson_diags_r_undoubled(n, pos, coor, coef) ==
    LET mcf == Add(One, Mul(Real(2), coef))
        curv(ind) == Mul(Mul(Half, Real(coor)), Inv(Real(ind)))
        m1 == [j \in 0..(n - 2) |->
                 IF j = n - 2 THEN Zero ELSE Mul(Neg(coef), Sub(One, curv(j + 1)))]
        p1 == [j \in 0..(n - 2) |->
                 IF j = 0 THEN Neg(coef) ELSE Mul(Neg(coef), Add(One, curv(j)))]
        d0 == [j \in 0..(n - 1) |-> mcf]
    IN  [m1 |-> m1,
         p1 |-> IF coor = 0 THEN [p1 EXCEPT ![0] = Zero] ELSE p1,
         d0 |-> [d0 EXCEPT ![0] = IF coor = 0
                                    THEN (IF pos = "LEFT" THEN One ELSE Zero)
                                    ELSE mcf,
                           ![n - 1] = IF pos = "LEFT" THEN One ELSE Zero]]

\* crank_nicolson_diags_r / crank_nicolson_diags: the three diagonals of the
\* radial operator; m1[j] sits at (j + 1, j), d0[j] at (j, j), p1[j] at (j, j + 1).
crank_nicolson_diags_r(n, pos, coor, coef) ==
    LET mcf == Add(One, Mul(Real(2), coef))
        curv(ind) == Mul(Mul(Half, Real(coor)), Inv(Real(ind)))
        lo(ind) == Mul(Neg(coef), Sub(One, curv(ind)))
        up(ind) == Mul(Neg(coef), Add(One, curv(ind)))
        m1 == [j \in 0..(n - 2) |-> IF j = n - 2 THEN Zero ELSE lo(j + 1)]
        p1 == [j \in 0..(n - 2) |-> IF j = 0 THEN Zero ELSE up(j)]
        d0 == [j \in 0..(n - 1) |-> mcf]
    IN  IF coor = 0 /\ pos = "LEFT"
          THEN [m1 |-> m1, p1 |-> p1,
                d0 |-> [d0 EXCEPT ![0] = One, ![n - 1] = One]]
        ELSE IF coor = 0 /\ pos = "RIGHT"
          THEN [m1 |-> m1, p1 |-> p1,
                d0 |-> [d0 EXCEPT ![0] = Zero, ![n - 1] = Zero]]
        ELSE IF coor = 1 /\ pos = "LEFT"
          THEN [m1 |-> m1,
                p1 |-> [p1 EXCEPT ![0] = Mul(Real(-2), coef)],
                d0 |-> [d0 EXCEPT ![0] = mcf, ![n - 1] = One]]
        ELSE IF coor = 1 /\ pos = "RIGHT"
          THEN [m1 |-> m1,
                p1 |-> [p1 EXCEPT ![0] = Mul(Real(-2), coef)],
                d0 |-> [d0 EXCEPT ![0] = mcf, ![n - 1] = Zero]]
        ELSE [m1 |-> m1, p1 |-> p1, d0 |-> d0]

\* crank_nicolson_diags of ffdmk_2d1_fcn.py, which has the text of
\* crank_nicolson_diags_r
crank_nicolson_diags(n, pos, coor, coef) ==
    LET mcf == Add(One, Mul(Real(2), coef))
        curv(ind) == Mul(Mul(Half, Real(coor)), Inv(Real(ind)))
        lo(ind) == Mul(Neg(coef), Sub(One, curv(ind)))
        up(ind) == Mul(Neg(coef), Add(One, curv(ind)))
        m1 == [j \in 0..(n - 2) |-> IF j = n - 2 THEN Zero ELSE lo(j + 1)]
        p1 == [j \in 0..(n - 2) |-> IF j = 0 THEN Zero ELSE up(j)]
        d0 == [j \in 0..(n - 1) |-> mcf]
    IN  IF coor = 0 /\ pos = "LEFT"
          THEN [m1 |-> m1, p1 |-> p1,
                d0 |-> [d0 EXCEPT ![0] = One, ![n - 1] = One]]
        ELSE IF coor = 0 /\ pos = "RIGHT"
          THEN [m1 |-> m1, p1 |-> p1,
                d0 |-> [d0 EXCEPT ![0] = Zero, ![n - 1] = Zero]]
        ELSE IF coor = 1 /\ pos = "LEFT"
          THEN [m1 |-> m1,
                p1 |-> [p1 EXCEPT ![0] = Mul(Real(-2), coef)],
                d0 |-> [d0 EXCEPT ![0] = mcf, ![n - 1] = One]]
        ELSE IF coor = 1 /\ pos = "RIGHT"
          THEN [m1 |-> m1,
                p1 |-> [p1 EXCEPT ![0] = Mul(Real(-2), coef)],
                d0 |-> [d0 EXCEPT ![0] = mcf, ![n - 1] = Zero]]
        ELSE [m1 |-> m1, p1 |-> p1, d0 |-> d0]

\* crank_nicolson_diags_t with the RIGHT branch's boundary values in its LEFT
\* branch
crank_nicolson_diags_t_zeroed(n, pos, coef) ==
    LET mcf == Add(One, Mul(Real(2), coef))
        m1 == [j \in 0..(n - 2) |-> IF j = n - 2 THEN Zero ELSE Neg(coef)]
        p1 == [j \in 0..(n - 2) |-> IF j = 0 THEN Zero ELSE Neg(coef)]
        d0 == [j \in 0..(n - 1) |-> mcf]
    IN  [m1 |-> m1, p1 |-> p1,
         d0 |-> [d0 EXCEPT ![0] = Zero, ![n - 1] = Zero]]

\* crank_nicolson_diags_t without diag_p1[0], diag_m1[-1] = 0, 0
crank_nicolson_diags_t_coupled(n, pos, coef) ==
    LET mcf == Add(One, Mul(Real(2), coef))
        m1 == [j \in 0..(n - 2) |-> Neg(coef)]
        p1 == [j \in 0..(n - 2) |-> Neg(coef)]
        d0 == [j \in 0..(n - 1) |-> mcf]
    IN  IF pos = "LEFT"
          THEN [m1 |-> m1, p1 |-> p1,
                d0 |-> [d0 EXCEPT ![0] = One, ![n - 1] = One]]
        ELSE IF pos = "RIGHT"
          THEN [m1 |-> m1, p1 |-> p1,
                d0 |-> [d0 EXCEPT ![0] = Zero, ![n - 1] = Zero]]
        ELSE [m1 |-> m1, p1 |-> p1, d0 |-> d0]

\* crank_nicolson_diags_t: the three diagonals of the temporal operator
crank_nicolson_diags_t(n, pos, coef) ==
    LET mcf == Add(One, Mul(Real(2), coef))
        m1 == [j \in 0..(n - 2) |-> IF j = n - 2 THEN Zero ELSE Neg(coef)]
        p1 == [j \in 0..(n - 2) |-> IF j = 0 THEN Zero ELSE Neg(coef)]
        d0 == [j \in 0..(n - 1) |-> mcf]
    IN  IF pos = "LEFT"
          THEN [m1 |-> m1, p1 |-> p1,
                d0 |-> [d0 EXCEPT ![0] = One, ![n - 1] = One]]
        ELSE IF pos = "RIGHT"
          THEN [m1 |-> m1, p1 |-> p1,
                d0 |-> [d0 EXCEPT ![0] = Zero, ![n - 1] = Zero]]
        ELSE [m1 |-> m1, p1 |-> p1, d0 |-> d0]

\* number of rows of an operator given by its diagonals
Dim(A) == Cardinality(DOMAIN A.d0)

\* one stored entry times a vector entry: diags_array(..., format="csr")
\* stores no zero entry, so a zero coefficient contributes nothing
Term(a, x) == IF a = Zero THEN Zero ELSE Mul(a, x)

\* A @ x for a tridiagonal operator
MatVec(A, x) ==
    LET n == Dim(A)
    IN  [r \in 0..(n - 1) |->
           Add(Add(IF r > 0 THEN Term(A.m1[r - 1], x[r - 1]) ELSE Zero,
                   Term(A.d0[r], x[r])),
               IF r < n - 1 THEN Term(A.p1[r], x[r + 1]) ELSE Zero)]

\* forward elimination of the direct solve: row r's pivot, its scaled upper
\* entry cp and its scaled right-hand side dp
RECURSIVE Sweep(_, _, _)
Sweep(A, f, r) ==
    IF r = 0
      THEN [piv |-> A.d0[0],
            cp |-> IF Dim(A) > 1 THEN Div(A.p1[0], A.d0[0]) ELSE Zero,
            dp |-> Div(f[0], A.d0[0]),
            ok |-> A.d0[0] # Zero]
      ELSE LET prev == Sweep(A, f, r - 1)
               piv == Sub(A.d0[r], Term(A.m1[r - 1], prev.cp))
           IN  [piv |-> piv,
                cp |-> IF r < Dim(A) - 1 THEN Div(A.p1[r], piv) ELSE Zero,
                dp |-> Div(Sub(f[r], Term(A.m1[r - 1], prev.dp)), piv),
                ok |-> prev.ok /\ piv # Zero]

RECURSIVE BackSub(_, _, _)
BackSub(A, f, r) ==
    IF r = Dim(A) - 1 THEN Sweep(A, f, r).dp
    ELSE Sub(Sweep(A, f, r).dp, Term(Sweep(A, f, r).cp, BackSub(A, f, r + 1)))

\* scipy.sparse.linalg.spsolve(A, f): the solution of A x = f by direct
\* factorisation; an exactly singular operator gives a vector of NaN
spsolve(A, f) ==
    LET n == Dim(A)
    IN  IF ~Sweep(A, f, n - 1).ok THEN [r \in 0..(n - 1) |-> NaN]
        ELSE [r \in 0..(n - 1) |-> BackSub(A, f, r)]

\* --------------------------------------------------- spectral propagator

\* exp(-2*pi*i / n), the root of unity of numpy.fft, for the lengths the
\* carrier has one for
RootOfUnity(n) == IF n = 1 THEN One
                  ELSE IF n = 2 THEN Neg(One)
                  ELSE Neg(IM_UNIT)

RECURSIVE SumTo(_, _)
SumTo(v, m) == IF m < 0 THEN Zero ELSE Add(SumTo(v, m - 1), v[m])

\* numpy.fft.fft(x)
fft(x) ==
    LET n == Cardinality(DOMAIN x)
    IN  [m \in 0..(n - 1) |->
           SumTo([j \in 0..(n - 1) |->
                    Mul(x[j], Pow(RootOfUnity(n), (m * j) % n))], n - 1)]

\* numpy.fft.ifft(X)
ifft(X) ==
    LET n == Cardinality(DOMAIN X)
    IN  [j \in 0..(n - 1) |->
           Mul(Inv(Real(n)),
               SumTo([m \in 0..(n - 1) |->
                        Mul(X[m], Pow(RootOfUnity(n), (n - ((m * j) % n)) % n))],
                     n - 1))]

\* np.linspace(a, b, m) as numerators over the common denominator LinDen(m)
LinDen(m) == IF m > 1 THEN m - 1 ELSE 1

linspace(a, b, m) == [j \in 0..(m - 1) |-> a * LinDen(m) + j * (b - a)]

\* frq_array = np.append(w1, w2) in units of FRQ_STEP_LEN / (2 * LinDen(n // 2)):
\* PI / TIME_STEP_LEN is n of the half-steps FRQ_STEP_LEN / 2
frq_array(n) ==
    LET m == n \div 2
        w1 == linspace(0, n - 2, m)
        w2 == linspace(0 - n, 0 - 2, m)
    IN  [j \in 0..(2 * m - 1) |-> IF j < m THEN w1[j] ELSE w2[j - m]]

\* fourier_coeff = exp(-2i * DELTA_T * (frq_array * TIME_STEP_LEN) ** 2)
\*               = g ** (q * q), q the frequency in units of FRQ_STEP_LEN and
\* g = exp(-2i * DELTA_T * (FRQ_STEP_LEN * TIME_STEP_LEN) ** 2), of modulus one
fourier_coeff(n, g) ==
    LET frq == frq_array(n)
        q(j) == frq[j] \div (2 * LinDen(n \div 2))
    IN  [j \in DOMAIN frq |-> Pow(g, q(j) * q(j))]

\* ------------------------------------------------------------------ grid

\* the grids, scaled down: radial nodes 0..N_RADI_NODES-1, temporal nodes
\* 0..N_TIME_NODES-1
N_RADI_NODES == 3

N_TIME_NODES == 4

AXIS_NODE == 0

N_PHOTONS == 5

MPA_EXP == 2 * N_PHOTONS - 2

RADI == 0..(N_RADI_NODES - 1)

TIME == 0..(N_TIME_NODES - 1)

\* largest configured number of propagation steps
MaxSteps == 3

\* largest node count handed to the operator builders
MaxNodes == 5

Fill(v) == [i \in RADI |-> [l \in TIME |-> v]]

Last(sq) == sq[Len(sq)]

Col(A, l) == [i \in RADI |-> A[i][l]]

SetCol(A, l, v) == [i \in RADI |-> [A[i] EXCEPT ![l] = v[i]]]

\* w_array[:, l, g] and w_array[i, :, g], and their assignment
WCol(w, l, g) == [i \in RADI |-> w[i][l][g]]

WRow(w, i, g) == [l \in TIME |-> w[i][l][g]]

SetWCol(w, l, g, v) == [i \in RADI |-> [w[i] EXCEPT ![l][g] = v[i]]]

SetWRow(w, i, g, v) == [w EXCEPT ![i] = [l \in TIME |-> [w[i][l] EXCEPT ![g] = v[l]]]]

WPlane(w, g) == [i \in RADI |-> [l \in TIME |-> w[i][l][g]]]

HasNaN(A) == \E i \in DOMAIN A : \E l \in DOMAIN A[i] : A[i][l] = NaN

\* ----------------------------------------------------------------- state

VARIABLES
    cfg,              \* the run's configuration (variant, step count, geometry,
                      \* coefficients), fixed at construction
    ops,              \* the Crank-Nicolson operators, built once
    pc, k, line,      \* position: phase, propagation step, line of the phase
    pending,          \* lines of the phase that have not been processed yet
    ic_array,         \* the array initial_condition returned
    envelope,         \* the array the name envelope is bound to
    envelope_store, envelope_axis, envelope_fourier,
    b_array, c_array, d_array, f_array, w_array,
    hist,             \* history: the field after 0, 1, 2, ... completed steps
    whist,            \* history: the "new" source generation beside each of them
    n_eval, n_solve,  \* history: source evaluations / implicit solves per grid
                      \* point in the current propagation step
    assigned,         \* history: trace rows the engine has written
    refs,             \* history: beside each completed step, what the step
                      \* gives with its loops run in index order
    output,           \* what np.savez was given, in order
    op_pc, op_args, op_out   \* a builder call on its own: arguments, result

engine_vars == << cfg, ops, pc, k, line, pending, ic_array, envelope, envelope_store,
                  envelope_axis, envelope_fourier, b_array, c_array, d_array,
                  f_array, w_array, hist, whist, n_eval, n_solve, assigned,
                  refs, output >>

op_vars == << op_pc, op_args, op_out >>

vars == << engine_vars, op_vars >>

\* the array the name envelope refers to
Envelope == IF envelope = "envelope_store" THEN envelope_store ELSE ic_array

\* ----------------------------------------------------------- configuration

\* DELTA_R, DELTA_T, the spectral factor's base g (of modulus one, 1 without
\* dispersion), DIST_STEP_LEN, KERR_COEF (imaginary) and MPA_COEF (real)
Physics ==
    { [DELTA_R |-> 1, DELTA_T |-> 2, g |-> Cx(2, 2), DIST_STEP_LEN |-> One,
       KERR_COEF |-> Zero, MPA_COEF |-> Zero],
      [DELTA_R |-> 1, DELTA_T |-> 0, g |-> One, DIST_STEP_LEN |-> One,
       KERR_COEF |-> Cx(0, 2), MPA_COEF |-> Cx(-1, 0)],
      [DELTA_R |-> 2, DELTA_T |-> 3, g |-> Cx(2, 2), DIST_STEP_LEN |-> One,
       KERR_COEF |-> Cx(0, 1), MPA_COEF |-> Cx(-2, 0)] }

\* what initial_condition may return: the zero field, a field supported on
\* one interior radial node, a field without symmetry, and a beam of zero
\* waist (r / waist is 0 / 0 on the axis)
InitialFields ==
    { Fill(Zero),
      [i \in RADI |-> [l \in TIME |-> IF i = 1 THEN One ELSE Zero]],
      [i \in RADI |-> [l \in TIME |-> Cx(i + l + 1, i * l + 2)]],
      [i \in RADI |-> [l \in TIME |-> IF i = AXIS_NODE THEN NaN
                                      ELSE Cx(i + l + 1, i * l + 2)]] }

\* what np.empty may hold
Uninitialised == { Zero, Cx(3, 5) }

\* for k in tqdm(range(N_STEPS)) / for k in tqdm(range(N_STEPS - 1))
LoopCount(variant, n_steps) == IF variant = "ADI" THEN n_steps ELSE n_steps - 1

\* the first phase of a propagation step, or the save after the last one
LoopHead(variant, n_steps, kk) ==
    IF kk < LoopCount(variant, n_steps)
      THEN (IF variant = "ADI" THEN "rhs_t" ELSE "spectral")
      ELSE "save"

\* DIST_STEP_LEN * (KERR_COEF * |z|^2 + MPA_COEF * |z|^MPA_EXP) * z
Source(z) ==
    Mul(Mul(cfg.phys.DIST_STEP_LEN,
            Add(Mul(cfg.phys.KERR_COEF, Abs2(z)),
                Mul(cfg.phys.MPA_COEF, AbsPow(z, MPA_EXP)))),
        z)

\* b + weight * (3 * w_new - w_old)
AB2(b, w_new, w_old, weight) == Add(b, Mul(weight, Sub(Mul(Real(3), w_new), w_old)))

\* the source generations of one line of the first half-step: the two
\* evaluations of the k == 0 branch or the one of the else branch
HalfA_Source(kk, d, old, new) ==
    IF kk = 0
      THEN [w0 |-> [j \in DOMAIN d |-> Source(d[j])],
            w1 |-> [j \in DOMAIN d |-> Source(Mul(One, d[j]))],
            evals |-> 2]
      ELSE [w0 |-> old,
            w1 |-> [j \in DOMAIN d |-> Source(d[j])],
            evals |-> 1]

\* HalfB_Source with a k == 0 branch that assigns both generations, as the
\* first half-step's does
HalfB_Source_both(kk, d, old, new) ==
    IF kk = 0
      THEN [w0 |-> [j \in DOMAIN d |-> Source(d[j])],
            w1 |-> [j \in DOMAIN d |-> Source(Mul(One, d[j]))],
            evals |-> 2]
      ELSE [w0 |-> old,
            w1 |-> [j \in DOMAIN d |-> Source(d[j])],
            evals |-> 1]

\* the source generations of one line of the second half-step: its k == 0
\* branch assigns w_array[i, :, 0] only
HalfB_Source(kk, d, old, new) ==
    IF kk = 0
      THEN [w0 |-> [j \in DOMAIN d |-> Source(d[j])],
            w1 |-> new,
            evals |-> 1]
      ELSE [w0 |-> old,
            w1 |-> [j \in DOMAIN d |-> Source(d[j])],
            evals |-> 1]

\* the source generations of one line of the time-domain half-step
Time_Source(kk, c, old, new) ==
    IF kk = 0
      THEN [w0 |-> [j \in DOMAIN c |-> Source(c[j])],
            w1 |-> [j \in DOMAIN c |-> Source(Mul(One, c[j]))],
            evals |-> 2]
      ELSE [w0 |-> old,
            w1 |-> [j \in DOMAIN c |-> Source(c[j])],
            evals |-> 1]

OpsOf(variant, coor, phys) ==
    LET ar == Mul(IM_UNIT, Real(phys.DELTA_R))    \* MAT_CNT_1R = IM_UNIT * DELTA_R
        at == Mul(IM_UNIT, Real(phys.DELTA_T))    \* MAT_CNT_1T = IM_UNIT * DELTA_T
    IN  IF variant = "ADI"
          THEN [left_r |-> crank_nicolson_diags_r(N_RADI_NODES, "LEFT", coor, ar),
                right_r |-> crank_nicolson_diags_r(N_RADI_NODES, "RIGHT", coor, Neg(ar)),
                left_t |-> crank_nicolson_diags_t(N_TIME_NODES, "LEFT", at),
                right_t |-> crank_nicolson_diags_t(N_TIME_NODES, "RIGHT", Neg(at))]
          ELSE [left_r |-> crank_nicolson_diags(N_RADI_NODES, "LEFT", coor, ar),
                right_r |-> crank_nicolson_diags(N_RADI_NODES, "RIGHT", coor, Neg(ar))]

\* the lines a phase loops over: for i in range(N_RADI_NODES) or
\* for l in range(N_TIME_NODES)
PhaseLines(phase) ==
    IF phase \in {"rhs_t", "half_b", "spectral"} THEN RADI
    ELSE IF phase \in {"half_a", "rhs_r", "time"} THEN TIME
    ELSE {}

OpIdle == /\ op_pc = "off"
          /\ op_args = << >>
          /\ op_out = << >>

\* ---------------------------------------- a propagation step in index order

\* The buffers at the head of loop iteration kk, which starts from the
\* committed field and source generation: the field and its name binding,
\* the result buffer, the right-hand side, the intermediate field, the source
\* generations and trace row 1 (what the iteration overwrites before reading
\* it is set to zero).
RefStart(kk, field, gen) ==
    [bound |-> kk > 0,
     ic |-> field,
     store |-> IF kk > 0 THEN field ELSE Fill(Zero),
     b |-> Fill(Zero),
     c |-> Fill(Zero),
     w |-> IF kk > 0 THEN [i \in RADI |-> [l \in TIME |-> [g \in 0..1 |-> gen[i][l]]]]
           ELSE Fill([g \in 0..1 |-> Zero]),
     axis1 |-> [l \in TIME |-> Zero]]

RefField(r) == IF r.bound THEN r.store ELSE r.ic

\* the loops of a propagation step run over their first n lines in index
\* order, 0, 1, ..., n - 1, from the buffers r
RECURSIVE Ref_RhsT(_, _)
Ref_RhsT(r, n) ==
    IF n = 0 THEN r
    ELSE LET q == Ref_RhsT(r, n - 1)
             i == n - 1
         IN  [q EXCEPT !.b = [q.b EXCEPT ![i] = MatVec(ops.right_t, RefField(q)[i])]]

RECURSIVE Ref_HalfA(_, _, _)
Ref_HalfA(r, kk, n) ==
    IF n = 0 THEN r
    ELSE LET q == Ref_HalfA(r, kk, n - 1)
             l == n - 1
             d == Col(RefField(q), l)
             w == HalfA_Source(kk, d, WCol(q.w, l, 0), WCol(q.w, l, 1))
             f == [i \in RADI |-> AB2(q.b[i][l], w.w1[i], w.w0[i], Quarter)]
         IN  [q EXCEPT !.w = SetWCol(SetWCol(q.w, l, 0, w.w0), l, 1, w.w1),
                       !.axis1 = IF kk = 0 THEN [q.axis1 EXCEPT ![l] = d[AXIS_NODE]]
                                 ELSE q.axis1,
                       !.c = SetCol(q.c, l, spsolve(ops.left_r, f))]

Ref_Rotate(r) ==
    [r EXCEPT !.w = [i \in RADI |-> [l \in TIME |->
                       [r.w[i][l] EXCEPT ![0] = r.w[i][l][1]]]]]

RECURSIVE Ref_RhsR(_, _)
Ref_RhsR(r, n) ==
    IF n = 0 THEN r
    ELSE LET q == Ref_RhsR(r, n - 1)
             l == n - 1
         IN  [q EXCEPT !.b = SetCol(q.b, l, MatVec(ops.right_r, Col(q.c, l)))]

RECURSIVE Ref_HalfB(_, _, _)
Ref_HalfB(r, kk, n) ==
    IF n = 0 THEN r
    ELSE LET q == Ref_HalfB(r, kk, n - 1)
             i == n - 1
             d == q.c[i]
             w == HalfB_Source(kk, d, WRow(q.w, i, 0), WRow(q.w, i, 1))
             f == [l \in TIME |-> AB2(q.b[i][l], w.w1[l], w.w0[l], Quarter)]
         IN  [q EXCEPT !.w = SetWRow(SetWRow(q.w, i, 0, w.w0), i, 1, w.w1),
                       !.axis1 = IF kk = 0 /\ i = AXIS_NODE THEN d ELSE q.axis1,
                       !.store = [q.store EXCEPT ![i] = spsolve(ops.left_t, f)]]

RECURSIVE Ref_Spectral(_, _)
Ref_Spectral(r, n) ==
    IF n = 0 THEN r
    ELSE LET q == Ref_Spectral(r, n - 1)
             i == n - 1
             ef == [m \in TIME |->
                      Mul(fourier_coeff(N_TIME_NODES, cfg.phys.g)[m],
                          fft(RefField(q)[i])[m])]
         IN  [q EXCEPT !.b = [q.b EXCEPT ![i] = ifft(ef)]]

RECURSIVE Ref_Time(_, _, _)
Ref_Time(r, kk, n) ==
    IF n = 0 THEN r
    ELSE LET q == Ref_Time(r, kk, n - 1)
             l == n - 1
             c == Col(q.b, l)
             w == Time_Source(kk, c, WCol(q.w, l, 0), WCol(q.w, l, 1))
             d == MatVec(ops.right_r, c)
             f == [i \in RADI |-> AB2(d[i], w.w1[i], w.w0[i], Half)]
         IN  [q EXCEPT !.c = SetCol(q.c, l, c),
                       !.w = SetWCol(SetWCol(q.w, l, 0, w.w0), l, 1, w.w1),
                       !.axis1 = IF kk = 0 THEN [q.axis1 EXCEPT ![l] = c[AXIS_NODE]]
                                 ELSE q.axis1,
                       !.store = SetCol(q.store, l, spsolve(ops.left_r, f))]

\* loop iteration kk with every loop in index order, as the program runs it:
\* the buffers after each of its loops
RefStep(variant, kk, field, gen) ==
    IF variant = "ADI"
      THEN LET rhs_t == Ref_RhsT(RefStart(kk, field, gen), N_RADI_NODES)
               half_a == Ref_HalfA(rhs_t, kk, N_TIME_NODES)
               rotate_a == Ref_Rotate(half_a)
               rhs_r == Ref_RhsR(rotate_a, N_TIME_NODES)
               half_b == Ref_HalfB(rhs_r, kk, N_RADI_NODES)
           IN  [rhs_t |-> rhs_t, half_a |-> half_a, rotate_a |-> rotate_a,
                rhs_r |-> rhs_r, last |-> half_b]
      ELSE LET spectral == Ref_Spectral(RefStart(kk, field, gen), N_RADI_NODES)
               time == Ref_Time(spectral, kk, N_TIME_NODES)
           IN  [spectral |-> spectral, last |-> time]

\* the program up to the propagation loop
Init ==
    \E variant \in {"ADI", "FCN"}, n_steps \in 1..MaxSteps, coor \in {0, 1},
       phys \in Physics, field \in InitialFields, junk \in Uninitialised :
      /\ cfg = [variant |-> variant, N_STEPS |-> n_steps, EU_CYL |-> coor,
                phys |-> phys]
      /\ ops = OpsOf(variant, coor, phys)
      /\ ic_array = field
      /\ envelope = "ic_array"
      /\ envelope_store = Fill(junk)
      /\ envelope_axis = [r \in 0..n_steps |->
                            IF r = 0 THEN field[AXIS_NODE]
                            ELSE [l \in TIME |-> junk]]
      /\ envelope_fourier = [l \in TIME |-> junk]
      /\ b_array = Fill(junk)
      /\ c_array = Fill(junk)
      /\ d_array = IF variant = "ADI" THEN Fill(junk) ELSE [i \in RADI |-> junk]
      /\ f_array = IF variant = "ADI" THEN Fill(junk) ELSE [i \in RADI |-> junk]
      /\ w_array = Fill([g \in 0..1 |-> junk])
      /\ k = 0
      /\ line = 0
      /\ pc = LoopHead(variant, n_steps, 0)
      /\ pending = PhaseLines(LoopHead(variant, n_steps, 0))
      /\ hist = << field >>
      /\ whist = << Fill(junk) >>
      /\ n_eval = Fill(0)
      /\ n_solve = Fill(0)
      /\ assigned = {0}
      /\ refs = << >>
      /\ output = << >>
      /\ OpIdle

\* line l of a phase over lines 0..last is done: the phase's next line, or
\* the phase after it
Advance(l, last, after) ==
    IF line < last THEN /\ line' = line + 1
                        /\ pc' = pc
                        /\ pending' = pending \ {l}
    ELSE /\ line' = 0
         /\ pc' = after
         /\ pending' = PhaseLines(after)

Bump(cnt, pts, by) == [i \in RADI |-> [l \in TIME |->
                         IF << i, l >> \in pts THEN cnt[i][l] + by ELSE cnt[i][l]]]

ColPts(l) == { << i, l >> : i \in RADI }

RowPts(i) == { << i, l >> : l \in TIME }

\* ------------------------------------------------------------ ADI variant

\* ADI_RhsT_At storing the right-hand side in the result buffer as well, which
\* is the field itself once envelope is bound to it
ADI_RhsT_At_stored(i) ==
    /\ pc = "rhs_t"
    /\ b_array' = [b_array EXCEPT ![i] = MatVec(ops.right_t, Envelope[i])]
    /\ envelope_store' = [envelope_store EXCEPT
                           ![i] = MatVec(ops.right_t, Envelope[i])]
    /\ Advance(i, N_RADI_NODES - 1, "half_a")
    /\ UNCHANGED << cfg, ops, refs, k, ic_array, envelope,
                    envelope_axis, envelope_fourier, c_array, d_array, f_array,
                    w_array, hist, whist, n_eval, n_solve, assigned, output >>
    /\ UNCHANGED op_vars

\* b_array[i, :] = right_cn_matrix_t @ envelope[i, :]
ADI_RhsT_At(i) ==
    /\ pc = "rhs_t"
    /\ b_array' = [b_array EXCEPT ![i] = MatVec(ops.right_t, Envelope[i])]
    /\ Advance(i, N_RADI_NODES - 1, "half_a")
    /\ UNCHANGED << cfg, ops, refs, k, ic_array, envelope, envelope_store,
                    envelope_axis, envelope_fourier, c_array, d_array, f_array,
                    w_array, hist, whist, n_eval, n_solve, assigned, output >>
    /\ UNCHANGED op_vars

\* one temporal line l of the first half-step
ADI_HalfA_At(l) ==
    /\ pc = "half_a"
    /\ LET d == Col(Envelope, l)
           w == HalfA_Source(k, d, WCol(w_array, l, 0), WCol(w_array, l, 1))
           f == [i \in RADI |-> AB2(b_array[i][l], w.w1[i], w.w0[i], Quarter)]
       IN  /\ d_array' = SetCol(d_array, l, d)
           /\ w_array' = SetWCol(SetWCol(w_array, l, 0, w.w0), l, 1, w.w1)
           /\ envelope_axis' = IF k = 0
                                 THEN [envelope_axis EXCEPT ![k + 1][l] = d[AXIS_NODE]]
                                 ELSE envelope_axis
           /\ assigned' = IF k = 0 /\ l = N_TIME_NODES - 1
                            THEN assigned \cup {k + 1} ELSE assigned
           /\ f_array' = SetCol(f_array, l, f)
           /\ c_array' = SetCol(c_array, l, spsolve(ops.left_r, f))
           /\ n_eval' = Bump(n_eval, ColPts(l), w.evals)
           /\ n_solve' = Bump(n_solve, ColPts(l), 1)
    /\ Advance(l, N_TIME_NODES - 1, "rotate_a")
    /\ UNCHANGED << cfg, ops, refs, k, ic_array, envelope, envelope_store,
                    envelope_fourier, b_array, hist, whist, output >>
    /\ UNCHANGED op_vars

\* w_array[:, :, 0] = w_array[:, :, 1] between the half-steps
ADI_RotateA ==
    /\ pc = "rotate_a"
    /\ w_array' = [i \in RADI |-> [l \in TIME |->
                     [w_array[i][l] EXCEPT ![0] = w_array[i][l][1]]]]
    /\ pc' = "rhs_r"
    /\ pending' = PhaseLines("rhs_r")
    /\ UNCHANGED << cfg, ops, refs, k, line, ic_array, envelope, envelope_store,
                    envelope_axis, envelope_fourier, b_array, c_array, d_array,
                    f_array, hist, whist, n_eval, n_solve, assigned, output >>
    /\ UNCHANGED op_vars

\* b_array[:, l] = right_cn_matrix_r @ c_array[:, l]
ADI_RhsR_At(l) ==
    /\ pc = "rhs_r"
    /\ b_array' = SetCol(b_array, l, MatVec(ops.right_r, Col(c_array, l)))
    /\ Advance(l, N_TIME_NODES - 1, "half_b")
    /\ UNCHANGED << cfg, ops, refs, k, ic_array, envelope, envelope_store,
                    envelope_axis, envelope_fourier, c_array, d_array, f_array,
                    w_array, hist, whist, n_eval, n_solve, assigned, output >>
    /\ UNCHANGED op_vars

\* one radial line i of the second half-step
ADI_HalfB_At(i) ==
    /\ pc = "half_b"
    /\ LET d == c_array[i]
           w == HalfB_Source(k, d, WRow(w_array, i, 0), WRow(w_array, i, 1))
           f == [l \in TIME |-> AB2(b_array[i][l], w.w1[l], w.w0[l], Quarter)]
       IN  /\ d_array' = [d_array EXCEPT ![i] = d]
           /\ w_array' = SetWRow(SetWRow(w_array, i, 0, w.w0), i, 1, w.w1)
           /\ envelope_axis' = IF k = 0 /\ i = AXIS_NODE
                                 THEN [envelope_axis EXCEPT ![k + 1] = d]
                                 ELSE envelope_axis
           /\ f_array' = [f_array EXCEPT ![i] = f]
           /\ envelope_store' = [envelope_store EXCEPT ![i] = spsolve(ops.left_t, f)]
           /\ n_eval' = Bump(n_eval, RowPts(i), w.evals)
           /\ n_solve' = Bump(n_solve, RowPts(i), 1)
    /\ Advance(i, N_RADI_NODES - 1, "commit")
    /\ UNCHANGED << cfg, ops, refs, k, ic_array, envelope, envelope_fourier, b_array,
                    c_array, hist, whist, assigned, output >>
    /\ UNCHANGED op_vars

\* the end of a propagation step: rotate the history, rebind envelope, write
\* trace row k + row_offset; then the loop's next iteration or its end
Commit(row_offset) ==
    /\ w_array' = [i \in RADI |-> [l \in TIME |->
                     [w_array[i][l] EXCEPT ![0] = w_array[i][l][1]]]]
    /\ envelope' = "envelope_store"
    /\ envelope_axis' = [envelope_axis EXCEPT
                           ![k + row_offset] = envelope_store[AXIS_NODE]]
    /\ assigned' = assigned \cup {k + row_offset}
    /\ hist' = Append(hist, envelope_store)
    /\ whist' = Append(whist, WPlane(w_array, 1))
    /\ n_eval' = Fill(0)
    /\ n_solve' = Fill(0)
    /\ k' = k + 1
    /\ pc' = LoopHead(cfg.variant, cfg.N_STEPS, k + 1)
    /\ pending' = PhaseLines(LoopHead(cfg.variant, cfg.N_STEPS, k + 1))
    /\ refs' = Append(refs, RefStep(cfg.variant, k, Last(hist), Last(whist)))
    /\ UNCHANGED << cfg, ops, line, ic_array, envelope_store, envelope_fourier,
                    b_array, c_array, d_array, f_array, output >>
    /\ UNCHANGED op_vars

ADI_Commit ==
    /\ pc = "commit"
    /\ cfg.variant = "ADI"
    /\ Commit(1)

\* ------------------------------------------------------- spectral variant

\* FCN_Spectral_At with its two statements in the other order: the line's
\* result is transformed back from the scratch spectrum before the line's own
\* spectrum is stored in it
FCN_Spectral_At_stale(i) ==
    /\ pc = "spectral"
    /\ LET ef == [m \in TIME |->
                    Mul(fourier_coeff(N_TIME_NODES, cfg.phys.g)[m],
                        fft(Envelope[i])[m])]
       IN  /\ envelope_fourier' = ef
           /\ b_array' = [b_array EXCEPT ![i] = ifft(envelope_fourier)]
    /\ Advance(i, N_RADI_NODES - 1, "time")
    /\ UNCHANGED << cfg, ops, refs, k, ic_array, envelope, envelope_store,
                    envelope_axis, c_array, d_array, f_array, w_array, hist,
                    whist, n_eval, n_solve, assigned, output >>
    /\ UNCHANGED op_vars

\* one radial line i of the spectral half-step
FCN_Spectral_At(i) ==
    /\ pc = "spectral"
    /\ LET ef == [m \in TIME |->
                    Mul(fourier_coeff(N_TIME_NODES, cfg.phys.g)[m],
                        fft(Envelope[i])[m])]
       IN  /\ envelope_fourier' = ef
           /\ b_array' = [b_array EXCEPT ![i] = ifft(ef)]
    /\ Advance(i, N_RADI_NODES - 1, "time")
    /\ UNCHANGED << cfg, ops, refs, k, ic_array, envelope, envelope_store,
                    envelope_axis, c_array, d_array, f_array, w_array, hist,
                    whist, n_eval, n_solve, assigned, output >>
    /\ UNCHANGED op_vars

\* one temporal line l of the time-domain half-step
FCN_Time_At(l) ==
    /\ pc = "time"
    /\ LET c == Col(b_array, l)
           w == Time_Source(k, c, WCol(w_array, l, 0), WCol(w_array, l, 1))
           d == MatVec(ops.right_r, c)
           f == [i \in RADI |-> AB2(d[i], w.w1[i], w.w0[i], Half)]
       IN  /\ c_array' = SetCol(c_array, l, c)
           /\ w_array' = SetWCol(SetWCol(w_array, l, 0, w.w0), l, 1, w.w1)
           /\ envelope_axis' = IF k = 0
                                 THEN [envelope_axis EXCEPT ![k + 1][l] = c[AXIS_NODE]]
                                 ELSE envelope_axis
           /\ assigned' = IF k = 0 /\ l = N_TIME_NODES - 1
                            THEN assigned \cup {k + 1} ELSE assigned
           /\ d_array' = d
           /\ f_array' = f
           /\ envelope_store' = SetCol(envelope_store, l, spsolve(ops.left_r, f))
           /\ n_eval' = Bump(n_eval, ColPts(l), w.evals)
           /\ n_solve' = Bump(n_solve, ColPts(l), 1)
    /\ Advance(l, N_TIME_NODES - 1, "commit")
    /\ UNCHANGED << cfg, ops, refs, k, ic_array, envelope, envelope_fourier, b_array,
                    hist, whist, output >>
    /\ UNCHANGED op_vars

FCN_Commit ==
    /\ pc = "commit"
    /\ cfg.variant = "FCN"
    /\ Commit(2)

\* ---------------------------------------------------------------- output

\* np.savez(..., e=envelope, e_axis=envelope_axis)
Save ==
    /\ pc = "save"
    /\ output' = Append(output, [e |-> Envelope, e_axis |-> envelope_axis])
    /\ pc' = "done"
    /\ pending' = {}
    /\ UNCHANGED << cfg, ops, refs, k, line, ic_array, envelope, envelope_store,
                    envelope_axis, envelope_fourier, b_array, c_array, d_array,
                    f_array, w_array, hist, whist, n_eval, n_solve, assigned >>
    /\ UNCHANGED op_vars

\* the loops as the program runs them, in index order: line is the loop
\* variable
ADI_RhsT == ADI_RhsT_At(line)

ADI_HalfA == ADI_HalfA_At(line)

ADI_RhsR == ADI_RhsR_At(line)

ADI_HalfB == ADI_HalfB_At(line)

FCN_Spectral == FCN_Spectral_At(line)

FCN_Time == FCN_Time_At(line)

Next ==
    \/ ADI_RhsT
    \/ ADI_HalfA
    \/ ADI_RotateA
    \/ ADI_RhsR
    \/ ADI_HalfB
    \/ ADI_Commit
    \/ FCN_Spectral
    \/ FCN_Time
    \/ FCN_Commit
    \/ Save

Spec == Init /\ [][Next]_vars

\* ------------------------------------- the line loops in any order

\* the same loop bodies with the lines of each half-step taken in any order
\* (a data-parallel map over the lines, serialised); line counts the lines
\* done
ADI_RhsT_Any == \E i \in pending : ADI_RhsT_At(i)

ADI_HalfA_Any == \E l \in pending : ADI_HalfA_At(l)

ADI_RhsR_Any == \E l \in pending : ADI_RhsR_At(l)

ADI_HalfB_Any == \E i \in pending : ADI_HalfB_At(i)

FCN_Spectral_Any == \E i \in pending : FCN_Spectral_At(i)

FCN_Time_Any == \E l \in pending : FCN_Time_At(l)

NextAnyOrder ==
    \/ ADI_RhsT_Any
    \/ ADI_HalfA_Any
    \/ ADI_RotateA
    \/ ADI_RhsR_Any
    \/ ADI_HalfB_Any
    \/ ADI_Commit
    \/ FCN_Spectral_Any
    \/ FCN_Time_Any
    \/ FCN_Commit
    \/ Save

SpecAnyOrder == Init /\ [][NextAnyOrder]_vars

\* ------------------------------------------- the builders on their own

EngineOff ==
    /\ cfg = << >>
    /\ ops = << >>
    /\ pc = "off"
    /\ k = 0
    /\ line = 0
    /\ pending = {}
    /\ ic_array = << >>
    /\ envelope = "ic_array"
    /\ envelope_store = << >>
    /\ envelope_axis = << >>
    /\ envelope_fourier = << >>
    /\ b_array = << >>
    /\ c_array = << >>
    /\ d_array = << >>
    /\ f_array = << >>
    /\ w_array = << >>
    /\ hist = << >>
    /\ whist = << >>
    /\ n_eval = << >>
    /\ n_solve = << >>
    /\ assigned = {}
    /\ refs = << >>
    /\ output = << >>

\* the coefficients handed to a builder: i * d and d, d real, and two more
Coefficients == { Cx(0, d) : d \in 0..(P - 1) } \cup { Cx(d, 0) : d \in 0..(P - 1) }
                  \cup { Cx(2, 3), Inv(Real(10)) }

\* a call of one of the three builders with n nodes, or the construction of
\* the angular-frequency axis for n temporal nodes (which takes n only)
InitOps ==
    /\ EngineOff
    /\ op_pc = "call"
    /\ op_out = << >>
    /\ \/ \E fn \in {"crank_nicolson_diags_r", "crank_nicolson_diags_t",
                     "crank_nicolson_diags"},
             n \in 3..MaxNodes, pos \in {"LEFT", "RIGHT"}, coor \in {0, 1},
             coef \in Coefficients :
            /\ fn = "crank_nicolson_diags_t" => coor = 0
            /\ op_args = [fn |-> fn, n |-> n, pos |-> pos, coor |-> coor,
                          coef |-> coef]
       \/ \E n \in 2..MaxNodes :
            op_args = [fn |-> "frq_array", n |-> n, pos |-> "NONE", coor |-> 0,
                       coef |-> Zero]

Return(out) ==
    /\ op_out' = out
    /\ op_pc' = "done"
    /\ UNCHANGED op_args
    /\ UNCHANGED engine_vars

Build_r ==
    /\ op_pc = "call"
    /\ op_args.fn = "crank_nicolson_diags_r"
    /\ Return(crank_nicolson_diags_r(op_args.n, op_args.pos, op_args.coor, op_args.coef))

Build_t ==
    /\ op_pc = "call"
    /\ op_args.fn = "crank_nicolson_diags_t"
    /\ Return(crank_nicolson_diags_t(op_args.n, op_args.pos, op_args.coef))

Build_fcn ==
    /\ op_pc = "call"
    /\ op_args.fn = "crank_nicolson_diags"
    /\ Return(crank_nicolson_diags(op_args.n, op_args.pos, op_args.coor, op_args.coef))

\* frq_array = np.append(w1, w2) for N_TIME_NODES = n
Build_frq ==
    /\ op_pc = "call"
    /\ op_args.fn = "frq_array"
    /\ Return(frq_array(op_args.n))

NextOps ==
    \/ Build_r
    \/ Build_t
    \/ Build_fcn
    \/ Build_frq

SpecOps == InitOps /\ [][NextOps]_vars

\* ------------------------------------------------------- claims: engine

\* lines of the phase named ph that have been processed, ph running over
\* 0..last and followed by the phase named nxt
DoneLines(variant, ph, nxt, last) ==
    IF cfg.variant # variant THEN {}
    ELSE IF pc = ph THEN 0..(line - 1)
    ELSE IF pc = nxt THEN 0..last
    ELSE {}

\* C1: when the run is finished, trace row i holds the axis slice of the
\* field after exactly i completed propagation steps, for every i from 0 to
\* the configured number of steps, in both variants.
C1_TraceRowIsStep ==
    pc = "done" =>
      \A r \in 0..cfg.N_STEPS :
        /\ r + 1 <= Len(hist)
        /\ envelope_axis[r] = hist[r + 1][AXIS_NODE]

\* C2: the half-step sequence has run exactly N_STEPS times, one step after
\* the other, when the final field and trace are handed to the output, and
\* the final field is the field after N_STEPS completed steps.
C2_StepsAtSave ==
    pc \in {"save", "done"} =>
      /\ k = cfg.N_STEPS
      /\ Len(hist) = cfg.N_STEPS + 1
      /\ Envelope = hist[cfg.N_STEPS + 1]

\* C3: whenever a line's AB2 contribution has been formed, at step 0 its
\* "old" and "new" source generations are equal at every grid point of the
\* line, and at a step k > 0 its "old" generation is the "new" generation
\* produced at step k - 1; in the first and second ADI half-steps and in
\* the spectral variant's time-domain half-step.
C3_AB2History ==
    LET okAt(i, l) == IF k = 0 THEN w_array[i][l][0] = w_array[i][l][1]
                      ELSE w_array[i][l][0] = Last(whist)[i][l]
    IN  /\ \A l \in DoneLines("ADI", "half_a", "rotate_a", N_TIME_NODES - 1) :
             \A i \in RADI : okAt(i, l)
        /\ \A i \in DoneLines("ADI", "half_b", "commit", N_RADI_NODES - 1) :
             \A l \in TIME : okAt(i, l)
        /\ \A l \in DoneLines("FCN", "time", "commit", N_TIME_NODES - 1) :
             \A i \in RADI : okAt(i, l)

\* C7: a non-finite value in the field after a half-step aborts the run:
\* the next half-step does not start from it, no propagation step commits
\* it (to the field or to a trace row), and no output is written after it.
C7_NonFiniteAborts ==
    /\ (cfg.variant = "ADI" /\ pc \in {"rhs_r", "half_b"}) => ~HasNaN(c_array)
    /\ (cfg.variant = "FCN" /\ pc = "time") => ~HasNaN(b_array)
    /\ \A j \in 2..Len(hist) :
         /\ ~HasNaN(hist[j])
         /\ \A l \in TIME : envelope_axis[j - 2 + (IF cfg.variant = "ADI" THEN 1 ELSE 2)][l] # NaN
    /\ (output # << >> /\ Len(hist) > 1) => ~HasNaN(Last(output).e)

\* C8: for every step count N_STEPS >= 1 the output is written at most once,
\* after the last propagation step, and every trace row 0..N_STEPS has been
\* assigned by the engine when it is written.
C8_TraceCompleteAtSave ==
    /\ Len(output) <= 1
    /\ output # << >> =>
         /\ pc = "done"
         /\ k = LoopCount(cfg.variant, cfg.N_STEPS)
         /\ (0..cfg.N_STEPS) \subseteq assigned

\* C9: in the second half-step of every ADI propagation step, step 0
\* included, the "new" generation entering 0.25 * (3 * new - old) is the
\* source of that step's intermediate field, at every grid point.
C9_SecondHalfNewFromIntermediate ==
    \A i \in DoneLines("ADI", "half_b", "commit", N_RADI_NODES - 1) :
      \A l \in TIME :
        /\ w_array[i][l][1] = Source(c_array[i][l])
        /\ f_array[i][l] = AB2(b_array[i][l], Source(c_array[i][l]),
                               w_array[i][l][0], Quarter)

\* C4 as stated: a field that is identically zero at propagation step k is
\* followed by an identically zero field at step k + 1, whatever the
\* nonlinear history holds.
C4_ZeroStaysZero ==
    \A j \in 1..(Len(hist) - 1) :
      hist[j] = Fill(Zero) => hist[j + 1] = Fill(Zero)

\* C4 amended: a field that is identically zero at propagation step k is
\* followed by an identically zero field at step k + 1 when k = 0 or the
\* source generation carried into step k is identically zero, for every
\* configuration and all nonlinear coefficients, in both variants.
C4_ZeroStaysZeroOnZeroHistory ==
    \A j \in 1..(Len(hist) - 1) :
      (hist[j] = Fill(Zero) /\ (j = 1 \/ whist[j] = Fill(Zero)))
        => hist[j + 1] = Fill(Zero)

\* a zero field has gone through step 0 and a later step with nonlinear
\* coefficients that are not zero
C4_Witness ==
    /\ Len(hist) >= 3
    /\ cfg.phys.KERR_COEF # Zero
    /\ cfg.phys.MPA_COEF # Zero
    /\ hist[1] = Fill(Zero)
    /\ hist[2] = Fill(Zero)
    /\ whist[2] = Fill(Zero)
    /\ hist[3] = Fill(Zero)

\* an ADI propagation step has run both of its half-steps
StepWorkDone == cfg.variant = "ADI" /\ pc = "commit"

\* C10 as stated: every ADI propagation step, step 0 included, does exactly
\* two implicit solves and exactly two source evaluations per grid point.
C10_TwoSolvesTwoEvaluations ==
    StepWorkDone =>
      \A i \in RADI : \A l \in TIME : n_solve[i][l] = 2 /\ n_eval[i][l] = 2

\* C10 amended: every ADI propagation step does exactly two implicit solves
\* per grid point; a step k > 0 does exactly two source evaluations per
\* grid point, one per half-step, and step 0 does three, two in the first
\* half-step and one in the second.
C10_TwoSolvesBootstrapEvaluations ==
    StepWorkDone =>
      \A i \in RADI : \A l \in TIME :
        /\ n_solve[i][l] = 2
        /\ n_eval[i][l] = IF k = 0 THEN 3 ELSE 2

\* a step after step 0 has done its work (step 0 did before it)
C10_Witness ==
    /\ StepWorkDone
    /\ k = 1
    /\ \A i \in RADI : \A l \in TIME : n_eval[i][l] = 2

\* ----------------------------------------------------- claims: builders

\* an implicit operator has been built for planar geometry (the temporal
\* builder has no curvature term)
BuiltPlanarLeft == /\ op_pc = "done"
                   /\ op_args.pos = "LEFT"
                   /\ op_args.coor = 0

\* C5: for planar geometry, every n >= 3 and every alpha the implicit operator
\* has main diagonal 1 in the first and last rows and 1 + 2 * alpha in every
\* interior row, off-diagonals -alpha in every interior row, and no
\* off-diagonal coupling in the first and last rows.
C5_PlanarImplicitOperator ==
    BuiltPlanarLeft =>
      LET n == op_args.n
          alpha == op_args.coef
      IN  /\ DOMAIN op_out.d0 = 0..(n - 1)
          /\ DOMAIN op_out.m1 = 0..(n - 2)
          /\ DOMAIN op_out.p1 = 0..(n - 2)
          /\ op_out.d0[0] = One
          /\ op_out.d0[n - 1] = One
          /\ op_out.p1[0] = Zero
          /\ op_out.m1[n - 2] = Zero
          /\ \A r \in 1..(n - 2) :
               /\ op_out.d0[r] = Add(One, Mul(Real(2), alpha))
               /\ op_out.m1[r - 1] = Neg(alpha)
               /\ op_out.p1[r] = Neg(alpha)

\* the literal case of C5: n = 4, alpha = 0.1, diagonal [1, 1.2, 1.2, 1]
C5_Witness ==
    /\ BuiltPlanarLeft
    /\ op_args.fn = "crank_nicolson_diags_r"
    /\ op_args.n = 4
    /\ op_args.coef = Inv(Real(10))
    /\ op_out.d0 = [r \in 0..3 |-> IF r \in {0, 3} THEN One ELSE Div(Real(12), Real(10))]
    /\ op_out.p1[1] = Neg(Inv(Real(10)))

BuiltCylLeft == /\ op_pc = "done"
                /\ op_args.pos = "LEFT"
                /\ op_args.coor = 1

\* C6 as stated: for cylindrical geometry the implicit operator's row-0
\* off-diagonal is exactly twice the off-diagonal coefficients of the
\* interior rows.
C6_RowZeroTwiceInteriorEntry ==
    BuiltCylLeft =>
      \A r \in 1..(op_args.n - 2) :
        /\ op_out.p1[0] = Mul(Real(2), op_out.p1[r])
        /\ op_out.p1[0] = Mul(Real(2), op_out.m1[r - 1])

\* C6 amended: for cylindrical geometry the implicit operator's row-0
\* off-diagonal is -2 * alpha, twice the planar interior coefficient -alpha,
\* which is the sum of the two off-diagonal coefficients
\* -alpha * (1 -+ 1 / (2 r)) of each interior row r.
C6_RowZeroTwiceAlpha ==
    BuiltCylLeft =>
      /\ op_out.p1[0] = Mul(Real(2), Neg(op_args.coef))
      /\ \A r \in 1..(op_args.n - 2) :
           /\ op_out.p1[0] = Add(op_out.m1[r - 1], op_out.p1[r])
           /\ op_out.m1[r - 1] = Mul(Neg(op_args.coef), Sub(One, Inv(Real(2 * r))))
           /\ op_out.p1[r] = Mul(Neg(op_args.coef), Add(One, Inv(Real(2 * r))))

C6_Witness ==
    /\ BuiltCylLeft
    /\ op_args.n = MaxNodes
    /\ op_args.coef = Cx(0, 1)
    /\ op_out.p1[0] = Cx(0, -2)
    /\ op_out.p1[1] # Cx(0, -1)

\* ---------------------------------------------- claims: the field's storage

\* C11: the live field changes only by replacement at the end of a
\* propagation step: from the commit of one step to the commit of the next
\* no entry of the committed field is modified, the writes of a step going to
\* scratch buffers only.
C11_FieldChangesOnlyAtCommit == Envelope = Last(hist)

\* ------------------------------------- claims: the order of the line loops

\* the lines of the current loop that have been processed
Processed == PhaseLines(pc) \ pending

\* C12: the lines of each half-step taken in any order give what index order
\* gives: after every propagation step, step 0 included, the intermediate
\* field, the source generations, the committed field and the trace rows
\* are those of the step run with all its loops in index order, in both
\* variants.
C12_AnyOrderAsIndexOrder ==
    LET adi == cfg.variant = "ADI"
        fcn == cfg.variant = "FCN"
        rowOf(j) == j - 1 + (IF adi THEN 1 ELSE 2)
    IN  /\ Len(refs) = Len(hist) - 1
        /\ \A j \in 1..Len(refs) :
             /\ hist[j + 1] = refs[j].last.store
             /\ whist[j + 1] = WPlane(refs[j].last.w, 1)
             /\ envelope_axis[rowOf(j)] = refs[j].last.store[AXIS_NODE]
             /\ (fcn /\ j = 1) => envelope_axis[1] = refs[j].last.axis1
        /\ (refs # << >> /\ pc \in {"rhs_t", "spectral", "save", "done"}
                       /\ line = 0) =>
             /\ Envelope = Last(refs).last.store
             /\ b_array = Last(refs).last.b
             /\ c_array = Last(refs).last.c
             /\ w_array = Ref_Rotate(Last(refs).last).w

\* the lines of a second half-step are being processed out of index order,
\* line 0 left for last, after a step whose loops ran in every order and
\* changed a field that is neither zero nor NaN
C12_Witness ==
    /\ pc \in {"half_b", "time"}
    /\ k >= 1
    /\ line >= 2
    /\ 0 \in pending
    /\ cfg.phys.KERR_COEF # Zero
    /\ ~HasNaN(Last(refs).last.store)
    /\ hist[Len(hist)] = Last(refs).last.store
    /\ hist[Len(hist)] # hist[Len(hist) - 1]
    /\ envelope_store # Last(hist)

\* ------------------------------------------- claims: the frequency axis

\* C13: for every temporal node count N the angular-frequency axis has
\* exactly N entries, the non-negative frequencies 0, dw, 2 dw, ... first
\* and the negative ones after them, ending at -dw, with
\* dw = 2 pi / (N dt): the order of the discrete Fourier transform.
\* (Entries are in units of dw / 2 over the common denominator LinDen.)
C13_FrequencyAxisDFTOrder ==
    (op_pc = "done" /\ op_args.fn = "frq_array") =>
      LET n == op_args.n
          den == LinDen(n \div 2)
          first_negative == (n + 1) \div 2
      IN  /\ DOMAIN op_out = 0..(n - 1)
          /\ \A j \in DOMAIN op_out :
               op_out[j] = (IF j < first_negative THEN 2 * j ELSE 2 * (j - n)) * den

\* ------------------------------------- claims: the temporal boundary

\* C14: the ADI variant keeps homogeneous Dirichlet conditions in time: after
\* every propagation step the committed field is zero at the first and at
\* the last temporal node of every transverse line, for any initial field and
\* any nonlinear coefficients.
C14_DirichletInTime ==
    cfg.variant = "ADI" =>
      \A j \in 2..Len(hist) : \A i \in RADI :
        /\ hist[j][i][0] = Zero
        /\ hist[j][i][N_TIME_NODES - 1] = Zero

\* --------------------------------------------- claims: reads of the field

\* C15: although the field's name and the result buffer are one array after
\* the first commit, every read of a field entry made while computing a
\* propagation step returns the value committed at the end of the step
\* before: the entries still to be read hold the committed values, and what
\* the reads already made have produced (the first right-hand side, the copy
\* of the field's line, the spectral half-step's result) is computed from
\* them, in both variants and every step.
C15_ReadsSeeCommitted ==
    LET committed == Last(hist)
        adi == cfg.variant = "ADI"
        fcn == cfg.variant = "FCN"
    IN  /\ (adi /\ pc = "rhs_t") =>
             \A i \in line..(N_RADI_NODES - 1) : Envelope[i] = committed[i]
        /\ (adi /\ pc = "half_a") =>
             \A l \in line..(N_TIME_NODES - 1) :
               Col(Envelope, l) = Col(committed, l)
        /\ (fcn /\ pc = "spectral") =>
             \A i \in line..(N_RADI_NODES - 1) : Envelope[i] = committed[i]
        /\ \A i \in DoneLines("ADI", "rhs_t", "half_a", N_RADI_NODES - 1) :
             b_array[i] = MatVec(ops.right_t, committed[i])
        /\ \A l \in DoneLines("ADI", "half_a", "rotate_a", N_TIME_NODES - 1) :
             Col(d_array, l) = Col(committed, l)
        /\ \A i \in DoneLines("FCN", "spectral", "time", N_RADI_NODES - 1) :
             b_array[i] = ifft([m \in TIME |->
                                  Mul(fourier_coeff(N_TIME_NODES, cfg.phys.g)[m],
                                      fft(committed[i])[m])])

\* the name and the result buffer are one array, and a later step has read
\* every line of a field that the step before changed, the result buffer
\* still holding it
C15_Witness ==
    /\ envelope = "envelope_store"
    /\ cfg.variant = "ADI"
    /\ k >= 1
    /\ pc = "rotate_a"
    /\ ~HasNaN(Last(hist))
    /\ Last(hist) # hist[Len(hist) - 1]
    /\ d_array = Last(hist)
    /\ envelope_store = Last(hist)

====
